---- MODULE Spec2Model ----
(***************************************************************************)
(* A model of statime in four parts, each with its own specification:      *)
(*  - the port dataset (PortDS): the port state machine driven by          *)
(*    enable(), disable(), set_forced_port_state() and                     *)
(*    set_recommended_port_state(), and the durations derived from the     *)
(*    port's configuration (Spec, PortSpec);                               *)
(*  - the wire format of the message header (CodecSpec);                   *)
(*  - the Linux network port: open(), send_time_critical() and recv()      *)
(*    (NetSpec, NetFairSpec);                                              *)
(*  - the loop of the metrics exporter (ExporterSpec).                     *)
(***************************************************************************)
EXTENDS Integers, Sequences, FiniteSets, TLC

\* ------------------------------------------------------------------ bounds

\* Port identities are 1..MaxIdentity (clock identity and port number taken
\* together as one opaque value).
MaxIdentity == 2

\* The sequence counter carried in a Slave or Master payload runs 0..MaxSeq.
MaxSeq == 1

\* log_announce_interval is drawn from -MaxLog..MaxLog.
MaxLog == 1

\* announce_receipt_timeout is drawn from 0..MaxTimeout and the u8 values
\* around the i8 sign boundary.
MaxTimeout == 3

\* ------------------------------------------------------- program constants

\* Width of the i8 fields and of the i8 product in announce_receipt_interval.
I8Bits == 8

I8Min == -(2 ^ (I8Bits - 1))

I8Max == 2 ^ (I8Bits - 1) - 1

U8Max == 2 ^ I8Bits - 1

\* ------------------------------------------------------------ value spaces

Identities == 1 .. MaxIdentity

NoIdentity == 0

\* The identity of the port modelled: the first of the identities.
LocalIdentity == CHOOSE i \in Identities : \A j \in Identities : i <= j

SeqIds == 0 .. MaxSeq

LogIntervals == (0 - MaxLog) .. MaxLog

Timeouts == (0 .. MaxTimeout) \cup {I8Max, I8Max + 1, U8Max}

\* enum DelayMechanism
DelayMechanism == {"E2E", "P2P", "NoMechanism", "CommonP2p", "Special"}

\* enum PortState: the tag, and for Slave and Master the payload.  Every value
\* has the same record shape; a tag without payload carries NoIdentity and 0.
PlainTags ==
    {"Initializing", "Faulty", "Disabled", "Listening", "PreMaster",
     "Passive", "Uncalibrated"}

PortStateTags == PlainTags \cup {"Slave", "Master"}

Plain(tag) == [tag |-> tag, remote_master |-> NoIdentity, seq |-> 0]

\* SlaveState::new(remote_master): the remote master and fresh bookkeeping.
SlaveState_new(remote_master) ==
    [tag |-> "Slave", remote_master |-> remote_master, seq |-> 0]

\* MasterState::new(): fresh sequence counters.
MasterState_new == [tag |-> "Master", remote_master |-> NoIdentity, seq |-> 0]

PortStates ==
    {Plain(t) : t \in PlainTags}
        \cup {[tag |-> "Slave", remote_master |-> m, seq |-> s] :
                m \in Identities, s \in SeqIds}
        \cup {[tag |-> "Master", remote_master |-> NoIdentity, seq |-> s] :
                s \in SeqIds}

\* enum RecommendedState: S1, P1 and P2 carry an announce message, of which
\* only header().source_port_identity() is read; M1..M3 carry the default
\* dataset, which is not read.
RecommendedStates ==
    [kind : {"S1", "P1", "P2"}, source_port_identity : Identities]
        \cup [kind : {"M1", "M2", "M3"}, source_port_identity : {NoIdentity}]

\* ---------------------------------------------------------------- Duration

\* A Duration is kept exactly as mant * 2^exp seconds, mant odd or zero.
DurationZero == [mant |-> 0, exp |-> 0]

RECURSIVE NormalizeDuration(_, _)
NormalizeDuration(mant, exp) ==
    IF mant = 0 THEN DurationZero
    ELSE IF mant % 2 = 0 THEN NormalizeDuration(mant \div 2, exp + 1)
    ELSE [mant |-> mant, exp |-> exp]

\* Duration::from_log_interval(e): 2^e seconds.
from_log_interval(log_interval) == NormalizeDuration(1, log_interval)

\* ------------------------------------------------------------------ PortDS

VARIABLES
    ds,        \* the PortDS
    call,      \* the last call made on it: operation, arguments, the PortDS
               \* before the call, reset() calls made on the announce
               \* receipt ticker, return value
    panicked,  \* TRUE once a call has panicked
    codec,     \* the last Header::serialize / Header::deserialize call
    net,       \* the Linux network runtime, its port and its sockets
    exporter   \* the metrics exporter: its loop, its buffer, its last reply

vars == <<ds, call, panicked, codec, net, exporter>>

\* What the calls on a PortDS leave alone.
outside_port == <<codec, net, exporter>>

NoCall(d) ==
    [op |-> "new", kind |-> "-", source_port_identity |-> NoIdentity,
     pre |-> d, resets |-> 0, ret |-> DurationZero]

\* The delay mechanisms PortDS::new accepts; the others are unimplemented!().
ImplementedDelayMechanism == {"E2E", "NoMechanism", "Special"}

PortDS_new(port_identity, log_min_delay_req_interval, log_announce_interval, announce_receipt_timeout, log_sync_interval, delay_mechanism, log_min_p_delay_req_interval, version_number, minor_version_number) ==
    [port_identity |-> port_identity,
     port_state |-> Plain("Listening"),
     log_min_delay_req_interval |-> log_min_delay_req_interval,
     mean_link_delay |-> DurationZero,
     log_announce_interval |-> log_announce_interval,
     announce_receipt_timeout |-> announce_receipt_timeout,
     log_sync_interval |-> log_sync_interval,
     delay_mechanism |-> delay_mechanism,
     log_min_p_delay_req_interval |-> log_min_p_delay_req_interval,
     version_number |-> version_number,
     minor_version_number |-> minor_version_number,
     delay_asymmetry |-> DurationZero,
     port_enable |-> TRUE,
     master_only |-> FALSE]

\* ------------------------------------------------------ derived durations

\* announce_interval()
announce_interval(d) == from_log_interval(d.log_announce_interval)

\* `x as i8` for a u8 x: the same eight bits read as two's complement.
AsI8(x) == IF x > I8Max THEN x - 2 ^ I8Bits ELSE x

\* An i8 result that does not fit, wrapped to eight bits.
WrapI8(x) == ((x - I8Min) % (2 ^ I8Bits)) + I8Min

FitsI8(x) == I8Min <= x /\ x <= I8Max

\* The exponent announce_receipt_interval() hands to from_log_interval:
\* self.announce_receipt_timeout as i8 * self.log_announce_interval
\* (the mathematical product, before the i8 multiplication's overflow rule).
ReceiptExponent(d) ==
    AsI8(d.announce_receipt_timeout) * d.log_announce_interval

\* announce_receipt_interval() where the i8 product fits, or wraps.
announce_receipt_interval(d) ==
    from_log_interval(WrapI8(ReceiptExponent(d)))

\* ------------------------------------------------------- state transitions

\* set_forced_port_state(state)
set_forced_port_state(d, state) == [d EXCEPT !.port_state = state]

\* disable() that forgets to clear port_enable.
disable_keeps_enable(d) == set_forced_port_state(d, Plain("Disabled"))

\* disable()
disable(d) ==
    set_forced_port_state([d EXCEPT !.port_enable = FALSE], Plain("Disabled"))

\* enable() that sets the flag and forgets the state.
enable_stays_disabled(d) == [d EXCEPT !.port_enable = TRUE]

\* enable() that goes to Listening from every state.
enable_always_listens(d) ==
    [d EXCEPT !.port_enable = TRUE, !.port_state = Plain("Listening")]

\* enable()
enable(d) ==
    LET e == [d EXCEPT !.port_enable = TRUE]
    IN  IF e.port_state.tag = "Disabled"
        THEN [e EXCEPT !.port_state = Plain("Listening")]
        ELSE e

\* S1_arm with Passive among the states S1 leaves alone.
S1_arm_passive_stays(tag) ==
    CASE tag \in {"Listening", "Uncalibrated", "PreMaster", "Master"}
            -> "transition"
      [] tag = "Slave" -> "slave"
      [] tag \in {"Passive", "Disabled"} -> "noop"
      [] tag \in {"Initializing", "Faulty"} -> "unimplemented"

\* S1_arm with Disabled among the states S1 moves to Slave.
S1_arm_disabled_moves(tag) ==
    CASE tag \in {"Listening", "Uncalibrated", "PreMaster", "Master", "Passive",
                  "Disabled"}
            -> "transition"
      [] tag = "Slave" -> "slave"
      [] tag \in {"Initializing", "Faulty"} -> "unimplemented"

\* The arm of `match &self.port_state` taken under S1.
S1_arm(tag) ==
    CASE tag \in {"Listening", "Uncalibrated", "PreMaster", "Master", "Passive"}
            -> "transition"
      [] tag = "Slave" -> "slave"
      [] tag = "Disabled" -> "noop"
      [] tag \in {"Initializing", "Faulty"} -> "unimplemented"

\* The comparison dropped: every S1 reslaves.
remote_master_always_differs(old_state, remote_master) == TRUE

\* old_state.remote_master() != remote_master
remote_master_differs(old_state, remote_master) ==
    old_state.remote_master # remote_master

\* M_arm with Master among the states an M recommendation moves to Master.
M_arm_master_moves(tag) ==
    CASE tag \in {"Listening", "Uncalibrated", "Slave", "Passive", "Master"}
            -> "transition"
      [] tag \in {"PreMaster", "Disabled"} -> "noop"
      [] tag \in {"Initializing", "Faulty"} -> "unimplemented"

\* M_arm with PreMaster among the states an M recommendation moves to Master.
M_arm_premaster_moves(tag) ==
    CASE tag \in {"Listening", "Uncalibrated", "Slave", "Passive", "PreMaster"}
            -> "transition"
      [] tag \in {"Master", "Disabled"} -> "noop"
      [] tag \in {"Initializing", "Faulty"} -> "unimplemented"

\* The arm of `match self.port_state` taken under M1, M2 or M3.
M_arm(tag) ==
    CASE tag \in {"Listening", "Uncalibrated", "Slave", "Passive"}
            -> "transition"
      [] tag \in {"PreMaster", "Master", "Disabled"} -> "noop"
      [] tag \in {"Initializing", "Faulty"} -> "unimplemented"

\* P_arm with Master among the states a P recommendation leaves alone.
P_arm_master_stays(tag) ==
    CASE tag \in {"Listening", "Uncalibrated", "Slave", "PreMaster"}
            -> "transition"
      [] tag \in {"Passive", "Disabled", "Master"} -> "noop"
      [] tag \in {"Initializing", "Faulty"} -> "unimplemented"

\* The arm of `match self.port_state` taken under P1 or P2.
P_arm(tag) ==
    CASE tag \in {"Listening", "Uncalibrated", "Slave", "PreMaster", "Master"}
            -> "transition"
      [] tag \in {"Passive", "Disabled"} -> "noop"
      [] tag \in {"Initializing", "Faulty"} -> "unimplemented"

\* What one call of set_recommended_port_state does: the PortDS it leaves,
\* the reset() calls it makes on announce_receipt_timeout, and whether it
\* ends in unimplemented!().
Outcome(d, resets, panic) == [ds |-> d, resets |-> resets, panic |-> panic]

recommended_S1(d, remote_master) ==
    LET state == SlaveState_new(remote_master)
        arm == S1_arm(d.port_state.tag)
    IN  CASE arm = "transition" ->
                Outcome(set_forced_port_state(d, state), 1, FALSE)
          [] arm = "slave" ->
                IF remote_master_differs(d.port_state, remote_master)
                THEN Outcome(set_forced_port_state(d, state), 1, FALSE)
                ELSE Outcome(d, 0, FALSE)
          [] arm = "noop" -> Outcome(d, 0, FALSE)
          [] arm = "unimplemented" -> Outcome(d, 0, TRUE)

\* recommended_M going through PreMaster, as the IEEE 1588 state machine does.
recommended_M_via_premaster(d) ==
    LET arm == M_arm(d.port_state.tag)
    IN  CASE arm = "transition" ->
                Outcome(set_forced_port_state(d, Plain("PreMaster")), 0, FALSE)
          [] arm = "noop" -> Outcome(d, 0, FALSE)
          [] arm = "unimplemented" -> Outcome(d, 0, TRUE)

recommended_M(d) ==
    LET arm == M_arm(d.port_state.tag)
    IN  CASE arm = "transition" ->
                Outcome(set_forced_port_state(d, MasterState_new), 0, FALSE)
          [] arm = "noop" -> Outcome(d, 0, FALSE)
          [] arm = "unimplemented" -> Outcome(d, 0, TRUE)

recommended_P(d) ==
    LET arm == P_arm(d.port_state.tag)
    IN  CASE arm = "transition" ->
                Outcome(set_forced_port_state(d, Plain("Passive")), 0, FALSE)
          [] arm = "noop" -> Outcome(d, 0, FALSE)
          [] arm = "unimplemented" -> Outcome(d, 0, TRUE)

\* set_recommended_port_state(recommended_state, announce_receipt_timeout)
set_recommended_port_state(d, recommended_state) ==
    CASE recommended_state.kind = "S1" ->
            recommended_S1(d, recommended_state.source_port_identity)
      [] recommended_state.kind \in {"M1", "M2", "M3"} -> recommended_M(d)
      [] recommended_state.kind \in {"P1", "P2"} -> recommended_P(d)

\* ----------------------------------------------------------------- actions

Called(op, rec, resets, ret) ==
    [op |-> op, kind |-> rec.kind,
     source_port_identity |-> rec.source_port_identity, pre |-> ds,
     resets |-> resets, ret |-> ret]

NoRec == [kind |-> "-", source_port_identity |-> NoIdentity]

Disable ==
    /\ ~panicked
    /\ ds' = disable(ds)
    /\ call' = Called("disable", NoRec, 0, DurationZero)
    /\ UNCHANGED <<panicked, outside_port>>

Enable ==
    /\ ~panicked
    /\ ds' = enable(ds)
    /\ call' = Called("enable", NoRec, 0, DurationZero)
    /\ UNCHANGED <<panicked, outside_port>>

SetForcedPortState(state) ==
    /\ ~panicked
    /\ ds' = set_forced_port_state(ds, state)
    /\ call' = Called("set_forced_port_state", NoRec, 0, DurationZero)
    /\ UNCHANGED <<panicked, outside_port>>

SetRecommendedPortState(recommended_state) ==
    /\ ~panicked
    /\ LET out == set_recommended_port_state(ds, recommended_state)
       IN  /\ ds' = out.ds
           /\ panicked' = out.panic
           /\ call' = Called("set_recommended_port_state",
                             recommended_state, out.resets, DurationZero)
    /\ UNCHANGED outside_port

AnnounceInterval ==
    /\ ~panicked
    /\ call' = Called("announce_interval", NoRec, 0,
                      announce_interval(ds))
    /\ UNCHANGED <<ds, panicked, outside_port>>

\* announce_receipt_interval(): the i8 product fits.
AnnounceReceiptInterval ==
    /\ ~panicked
    /\ FitsI8(ReceiptExponent(ds))
    /\ call' = Called("announce_receipt_interval", NoRec, 0, announce_receipt_interval(ds))
    /\ UNCHANGED <<ds, panicked, outside_port>>

\* announce_receipt_interval(): the i8 product overflows and the build has
\* no overflow checks, so it wraps.
AnnounceReceiptIntervalWraps ==
    /\ ~panicked
    /\ ~FitsI8(ReceiptExponent(ds))
    /\ call' = Called("announce_receipt_interval", NoRec, 0, announce_receipt_interval(ds))
    /\ UNCHANGED <<ds, panicked, outside_port>>

\* announce_receipt_interval(): the i8 product overflows and the build has
\* overflow checks, so the multiplication panics.
AnnounceReceiptIntervalOverflows ==
    /\ ~panicked
    /\ ~FitsI8(ReceiptExponent(ds))
    /\ call' = Called("announce_receipt_interval", NoRec, 0, DurationZero)
    /\ panicked' = TRUE
    /\ UNCHANGED <<ds, outside_port>>

\* A master port sends an Announce and advances its sequence counter.
MasterSendAnnounce ==
    /\ ~panicked
    /\ ds.port_state.tag = "Master"
    /\ ds.port_state.seq < MaxSeq
    /\ ds' = [ds EXCEPT !.port_state.seq = @ + 1]
    /\ call' = Called("send_announce", NoRec, 0,
                      DurationZero)
    /\ UNCHANGED <<panicked, outside_port>>

\* A slave port sends a DelayReq and advances its sequence counter.
SlaveSendDelayReq ==
    /\ ~panicked
    /\ ds.port_state.tag = "Slave"
    /\ ds.port_state.seq < MaxSeq
    /\ ds' = [ds EXCEPT !.port_state.seq = @ + 1]
    /\ call' = Called("send_delay_req", NoRec, 0,
                      DurationZero)
    /\ UNCHANGED <<panicked, outside_port>>

\* ------------------------------------------------------------ wire format

\* Header::STATIC_SIZE
HeaderSize == 34

ByteModulus == U8Max + 1

Bytes == 0 .. U8Max

U16Max == ByteModulus * ByteModulus - 1

\* Bit n of the byte b.
Bit(b, n) == (b \div (2 ^ n)) % 2

RECURSIVE BitAndFrom(_, _, _)
BitAndFrom(a, b, n) ==
    IF n = I8Bits THEN 0
    ELSE Bit(a, n) * Bit(b, n) * (2 ^ n) + BitAndFrom(a, b, n + 1)

\* a & b, a | b, a << n and a >> n on u8.
BitAnd(a, b) == BitAndFrom(a, b, 0)

BitOr(a, b) == a + b - BitAnd(a, b)

Shl(a, n) == (a * (2 ^ n)) % ByteModulus

Shr(a, n) == a \div (2 ^ n)

\* u16::to_be_bytes written least significant byte first.
to_le_bytes(x) == <<x % ByteModulus, x \div ByteModulus>>

\* u16::to_be_bytes and u16::from_be_bytes
to_be_bytes(x) == <<x \div ByteModulus, x % ByteModulus>>

from_be_bytes(bytes) == bytes[1] * ByteModulus + bytes[2]

\* buffer[i] and buffer[from..to] with the code's offsets (from 0, to exclusive).
At(buffer, i) == buffer[i + 1]

Slice(buffer, from, to) == SubSeq(buffer, from + 1, to)

\* buffer[at..at + len].copy_from_slice(bytes)
copy_from_slice(buffer, at, bytes) ==
    [i \in 1 .. Len(buffer) |->
        IF i > at /\ i <= at + Len(bytes) THEN bytes[i - at] ELSE buffer[i]]

\* enum MessageType and its 4-bit code.
MessageTypeCode ==
    [Sync |-> 0, DelayReq |-> 1, PDelayReq |-> 2, PDelayResp |-> 3,
     FollowUp |-> 8, DelayResp |-> 9, PDelayRespFollowUp |-> 10,
     Announce |-> 11, Signaling |-> 12, Management |-> 13]

MessageTypes == DOMAIN MessageTypeCode

DefinedTypeCodes == {MessageTypeCode[t] : t \in MessageTypes}

ReservedTypeCodes == (0 .. 15) \ DefinedTypeCodes

\* u8::from(MessageType)
MessageType_to_u8(message_type) == MessageTypeCode[message_type]

\* MessageType::try_from(u8): the type of a defined code, an error otherwise.
MessageType_try_from(v) ==
    IF v \in DefinedTypeCodes
    THEN [ok |-> TRUE,
          value |-> CHOOSE t \in MessageTypes : MessageTypeCode[t] = v]
    ELSE [ok |-> FALSE, value |-> "InvalidEnumValue"]

\* enum ControlField and its octet.
ControlFieldCode ==
    [Sync |-> 0, DelayReq |-> 1, FollowUp |-> 2, DelayResp |-> 3,
     Management |-> 4, AllOthers |-> 5]

ControlFields == DOMAIN ControlFieldCode

ControlField_to_primitive(control_field) == ControlFieldCode[control_field]

\* ControlField::from_primitive is total: every octet without a name of its
\* own is AllOthers.
ControlField_from_primitive(v) ==
    IF \E c \in ControlFields : ControlFieldCode[c] = v
    THEN CHOOSE c \in ControlFields : ControlFieldCode[c] = v
    ELSE "AllOthers"

\* struct FlagField: the set of the flags that are true.  Each flag has an
\* octet (0 or 1) and a bit in the two octets of the field.
FlagBit ==
    [alternate_master_flag |-> <<0, 0>>, two_step_flag |-> <<0, 1>>,
     unicast_flag |-> <<0, 2>>, ptp_profile_specific_1 |-> <<0, 5>>,
     ptp_profile_specific_2 |-> <<0, 6>>, leap61 |-> <<1, 0>>,
     leap59 |-> <<1, 1>>, current_utc_offset_valid |-> <<1, 2>>,
     ptp_timescale |-> <<1, 3>>, time_tracable |-> <<1, 4>>,
     frequency_tracable |-> <<1, 5>>, synchronization_uncertain |-> <<1, 6>>]

Flags == DOMAIN FlagBit

RECURSIVE FlagOctetFrom(_, _, _)
FlagOctetFrom(flags, octet, n) ==
    IF n = I8Bits THEN 0
    ELSE (IF \E f \in flags : FlagBit[f] = <<octet, n>> THEN 2 ^ n ELSE 0)
         + FlagOctetFrom(flags, octet, n + 1)

\* FlagField::serialize: the bits of the true flags, every other bit 0.
FlagField_serialize(flags) ==
    <<FlagOctetFrom(flags, 0, 0), FlagOctetFrom(flags, 1, 0)>>

\* FlagField::deserialize: the flags whose bit is set.
FlagField_deserialize(bytes) ==
    {f \in Flags : Bit(bytes[FlagBit[f][1] + 1], FlagBit[f][2]) = 1}

\* struct TimeInterval: the 64 bits of the fixed-point value (48 integer and
\* 16 fractional bits, two's complement) as four 16-bit words, most
\* significant first.
TimeInterval_serialize(words) ==
    to_be_bytes(words[1]) \o to_be_bytes(words[2])
        \o to_be_bytes(words[3]) \o to_be_bytes(words[4])

TimeInterval_deserialize(bytes) ==
    <<from_be_bytes(SubSeq(bytes, 1, 2)), from_be_bytes(SubSeq(bytes, 3, 4)),
      from_be_bytes(SubSeq(bytes, 5, 6)), from_be_bytes(SubSeq(bytes, 7, 8))>>

\* struct PortIdentity on the wire: clock_identity (8 octets), port_number.
PortIdentity_serialize(id) == id.clock_identity \o to_be_bytes(id.port_number)

PortIdentity_deserialize(bytes) ==
    [clock_identity |-> SubSeq(bytes, 1, 8),
     port_number |-> from_be_bytes(SubSeq(bytes, 9, 10))]

\* The outcome of a call: Ok(n) with the header read or the buffer written,
\* Err(error), or a panic (with the buffer as far as it was written).
NoHeader == [message_type |-> "none"]

Ok(header, buffer, n) ==
    [kind |-> "Ok", header |-> header, buffer |-> buffer, n |-> n,
     error |-> "none"]

Err(error, buffer) ==
    [kind |-> "Err", header |-> NoHeader, buffer |-> buffer, n |-> 0,
     error |-> error]

Panic(buffer) ==
    [kind |-> "Panic", header |-> NoHeader, buffer |-> buffer, n |-> 0,
     error |-> "none"]

NoResult ==
    [kind |-> "none", header |-> NoHeader, buffer |-> <<>>, n |-> 0,
     error |-> "none"]

\* Octet 0 with the two nibbles the other way round.
serialize_octet0_swapped(h) ==
    BitOr(Shl(BitAnd(MessageType_to_u8(h.message_type), 15), 4),
          BitAnd(h.major_sdo_id, 15))

\* Header::serialize, the value written to buffer[0] and buffer[1].
serialize_octet0(h) ==
    BitOr(Shl(BitAnd(h.major_sdo_id, 15), 4),
          BitAnd(MessageType_to_u8(h.message_type), 15))

serialize_octet1(h) ==
    BitOr(Shl(BitAnd(h.minor_version_ptp, 15), 4), BitAnd(h.version_ptp, 15))

\* Header::serialize, statement by statement: where each one writes and what.
serialize_steps(h) ==
    << [at |-> 0, bytes |-> <<serialize_octet0(h)>>],
       [at |-> 1, bytes |-> <<serialize_octet1(h)>>],
       [at |-> 2, bytes |-> to_be_bytes(h.message_length)],
       [at |-> 4, bytes |-> <<h.domain_number>>],
       [at |-> 5, bytes |-> <<h.minor_sdo_id>>],
       [at |-> 6, bytes |-> FlagField_serialize(h.flag_field)],
       [at |-> 8, bytes |-> TimeInterval_serialize(h.correction_field)],
       [at |-> 16, bytes |-> h.message_type_specific],
       [at |-> 20, bytes |-> PortIdentity_serialize(h.source_port_identity)],
       [at |-> 30, bytes |-> to_be_bytes(h.sequence_id)],
       [at |-> 32,
        bytes |-> <<ControlField_to_primitive(h.control_field)>>],
       [at |-> 33, bytes |-> <<h.log_message_interval>>] >>

\* The statements from the k-th on: indexing or slicing past the end of the
\* buffer panics, with the earlier statements' bytes already written.
RECURSIVE write_steps(_, _, _)
write_steps(steps, k, buffer) ==
    IF k > Len(steps) THEN Ok(NoHeader, buffer, HeaderSize)
    ELSE IF steps[k].at + Len(steps[k].bytes) > Len(buffer) THEN Panic(buffer)
    ELSE write_steps(steps, k + 1,
                     copy_from_slice(buffer, steps[k].at, steps[k].bytes))

\* Header::serialize(&self, buffer)
serialize(h, buffer) == write_steps(serialize_steps(h), 1, buffer)

\* The message type taken from the high nibble of octet 0.
message_type_nibble_high(buffer) == BitAnd(Shr(At(buffer, 0), 4), 15)

\* Header::deserialize, the nibble handed to MessageType::try_from.
message_type_nibble(buffer) == BitAnd(At(buffer, 0), 15)

\* Header::deserialize, the fields read from a buffer that is long enough.
deserialize_fields(buffer) ==
    [major_sdo_id |-> BitAnd(Shr(At(buffer, 0), 4), 15),
     message_type |-> MessageType_try_from(message_type_nibble(buffer)).value,
     minor_version_ptp |-> BitAnd(Shr(At(buffer, 1), 4), 15),
     version_ptp |-> BitAnd(At(buffer, 1), 15),
     message_length |-> from_be_bytes(Slice(buffer, 2, 4)),
     domain_number |-> At(buffer, 4),
     minor_sdo_id |-> At(buffer, 5),
     flag_field |-> FlagField_deserialize(Slice(buffer, 6, 8)),
     correction_field |-> TimeInterval_deserialize(Slice(buffer, 8, 16)),
     message_type_specific |-> Slice(buffer, 16, 20),
     source_port_identity |-> PortIdentity_deserialize(Slice(buffer, 20, 30)),
     sequence_id |-> from_be_bytes(Slice(buffer, 30, 32)),
     control_field |-> ControlField_from_primitive(At(buffer, 32)),
     log_message_interval |-> At(buffer, 33)]

\* Header::deserialize(buffer): the fields are evaluated in order, so
\* buffer[0] is indexed first, the message type is converted next, and every
\* later index or slice panics on a buffer that ends before it.
deserialize(buffer) ==
    IF Len(buffer) < 1 THEN Panic(buffer)
    ELSE IF ~MessageType_try_from(message_type_nibble(buffer)).ok
         THEN Err("InvalidEnumValue", buffer)
    ELSE IF Len(buffer) < HeaderSize THEN Panic(buffer)
    ELSE Ok(deserialize_fields(buffer), buffer, HeaderSize)

\* --- the headers and buffers the codec is run on

\* Buffers are 0 .. HeaderSize + MaxExtra octets long.
TestHeader ==
    [major_sdo_id |-> 5, message_type |-> "DelayResp",
     minor_version_ptp |-> 10, version_ptp |-> 1, message_length |-> 4660,
     domain_number |-> 170, minor_sdo_id |-> 187,
     flag_field |-> {"alternate_master_flag", "unicast_flag",
                     "ptp_profile_specific_2", "leap59", "ptp_timescale",
                     "frequency_tracable"},
     correction_field |-> <<0, 0, 1, 32768>>,
     message_type_specific |-> <<5, 6, 7, 8>>,
     source_port_identity |->
        [clock_identity |-> <<0, 1, 2, 3, 4, 5, 6, 7>>, port_number |-> 21845],
     sequence_id |-> 57005, control_field |-> "FollowUp",
     log_message_interval |-> 22]

TestBytes ==
    <<89, 161, 18, 52, 170, 187, 69, 42, 0, 0, 0, 0, 0, 1, 128, 0, 5, 6, 7,
      8, 0, 1, 2, 3, 4, 5, 6, 7, 85, 85, 222, 173, 2, 22>>

\* u8 values inside and outside four bits, and u16 values with distinct
\* octets.
NibbleSamples == {0, 1, 5, 10, 15, 16, 21, 240, U8Max}

ByteSamples == {0, 22, 127, 128, 170, 187, U8Max}

U16Samples == {0, 1, U8Max, ByteModulus, 4660, 21845, 57005, U16Max}

FlagSamples ==
    {{}, Flags, TestHeader.flag_field} \cup {{f} : f \in Flags}

TimeIntervalSamples ==
    {<<0, 0, 0, 0>>, <<0, 0, 1, 32768>>, <<U16Max, U16Max, U16Max, U16Max>>,
     <<32768, 0, 0, 0>>, <<4660, 22136, 39612, 57072>>}

\* The test header with one group of fields varied.
HeaderSamples ==
    {[TestHeader EXCEPT !.major_sdo_id = v, !.message_type = t] :
        v \in NibbleSamples, t \in MessageTypes}
    \cup {[TestHeader EXCEPT !.minor_version_ptp = v, !.version_ptp = w] :
            v \in NibbleSamples, w \in NibbleSamples}
    \cup {[TestHeader EXCEPT !.message_length = v, !.sequence_id = w] :
            v \in U16Samples, w \in U16Samples}
    \cup {[TestHeader EXCEPT !.domain_number = v, !.minor_sdo_id = w,
                             !.log_message_interval = x] :
            v \in ByteSamples, w \in {0, 187}, x \in {22, U8Max}}
    \cup {[TestHeader EXCEPT !.flag_field = v, !.control_field = w] :
            v \in FlagSamples, w \in ControlFields}
    \cup {[TestHeader EXCEPT !.correction_field = v,
                             !.message_type_specific = <<w, 6, 7, w>>,
                             !.source_port_identity.port_number = x] :
            v \in TimeIntervalSamples, w \in {5, U8Max}, x \in {1, 21845}}

\* The octets that are varied through all their values in a buffer: the two
\* nibble octets, the flag field and the control field.
VariedOffsets == {0, 1, 6, 7, 32}

\* The test vector with one octet replaced, cut or extended to a length.
MaxExtra == 1

BufferLengths == 0 .. (HeaderSize + MaxExtra)

Resized(buffer, len) ==
    [i \in 1 .. len |-> IF i <= Len(buffer) THEN buffer[i] ELSE 0]

BufferSamples ==
    {copy_from_slice(TestBytes, at, <<v>>) :
        at \in VariedOffsets, v \in Bytes}
    \cup {copy_from_slice(TestBytes, at, <<v>>) :
            at \in 0 .. (HeaderSize - 1), v \in ByteSamples}
    \cup {Resized(copy_from_slice(TestBytes, 0, <<v>>), len) :
            v \in {89, 94}, len \in BufferLengths}

\* --- the calls: each behaviour is one call and, when it succeeded, the
\* opposite call on what it produced

CodecIdle ==
    [op |-> "none", header |-> NoHeader, buffer_in |-> <<>>,
     first |-> NoResult, result |-> NoResult]

\* header.serialize(&mut buffer) on a zeroed buffer, for a sample header and
\* a buffer length.
Serialize ==
    /\ codec = CodecIdle
    /\ \E h \in HeaderSamples, len \in BufferLengths :
            codec' = [op |-> "serialize", header |-> h,
                      buffer_in |-> Resized(<<>>, len), first |-> NoResult,
                      result |-> serialize(h, Resized(<<>>, len))]
    /\ UNCHANGED <<ds, call, panicked, net, exporter>>

\* Header::deserialize(&buffer) for a sample buffer.
Deserialize ==
    /\ codec = CodecIdle
    /\ \E buffer \in BufferSamples :
            codec' = [op |-> "deserialize", header |-> NoHeader,
                      buffer_in |-> buffer, first |-> NoResult,
                      result |-> deserialize(buffer)]
    /\ UNCHANGED <<ds, call, panicked, net, exporter>>

\* Header::deserialize of the bytes a successful serialize has written.
DeserializeSerialized ==
    /\ codec.op = "serialize"
    /\ codec.result.kind = "Ok"
    /\ codec' = [op |-> "deserialize_serialized", header |-> codec.header,
                 buffer_in |-> codec.result.buffer, first |-> codec.result,
                 result |-> deserialize(codec.result.buffer)]
    /\ UNCHANGED <<ds, call, panicked, net, exporter>>

\* serialize of the header a successful deserialize has returned, into a
\* zeroed buffer of the input's length.
SerializeDeserialized ==
    /\ codec.op = "deserialize"
    /\ codec.result.kind = "Ok"
    /\ codec' = [op |-> "serialize_deserialized",
                 header |-> codec.result.header,
                 buffer_in |-> codec.buffer_in, first |-> codec.result,
                 result |-> serialize(codec.result.header,
                                      Resized(<<>>, Len(codec.buffer_in)))]
    /\ UNCHANGED <<ds, call, panicked, net, exporter>>

\* ----------------------------------------------------------- network port

\* The local ports of the time critical (event) and the non time critical
\* (general) socket.
TcPort == 319

NtcPort == 320

\* At most MaxDatagrams datagrams arrive on the two sockets together.
MaxDatagrams == 3

\* At most MaxSends calls of send_time_critical are made.
MaxSends == 2

\* At most MaxErrQueue messages without a transmit timestamp are put on the
\* error queue of the time critical socket.
MaxErrQueue == 1

\* Ipv4Addr::new(a, b, c, d): the four octets.
Ipv4Addr_new(a, b, c, d) == <<a, b, c, d>>

\* Ipv6Addr::new(a, ..., h): eight 16-bit segments, each two octets of the
\* address, most significant first.
Ipv6Addr_new(a, b, c, d, e, f, g, h) == to_be_bytes(a) \o to_be_bytes(b) \o to_be_bytes(c) \o to_be_bytes(d) \o to_be_bytes(e) \o to_be_bytes(f) \o to_be_bytes(g) \o to_be_bytes(h)

IPV6_PRIMARY_MULTICAST == Ipv6Addr_new(255, 14, 0, 0, 0, 0, 1, 129)

IPV6_PDELAY_MULTICAST == Ipv6Addr_new(255, 2, 0, 0, 0, 0, 0, 107)

IPV4_PRIMARY_MULTICAST == Ipv4Addr_new(224, 0, 1, 129)

IPV4_PDELAY_MULTICAST == Ipv4Addr_new(224, 0, 0, 107)

\* enum LinuxNetworkMode
LinuxNetworkMode == {"Ipv4", "Ipv6"}

\* The interfaces of the host: the families each one has an address of.
\* A descriptor names one of them, an interface the host does not have, or
\* none.
NoName == "none"

HostInterfaces == [eth0 |-> {"Ipv4", "Ipv6"}, eth1 |-> {"Ipv4"}]

InterfaceNames == (DOMAIN HostInterfaces) \cup {"absent", NoName}

\* LinuxInterfaceDescriptor::get_address: the first address of the mode's
\* family on the named interface, the unspecified address without a name.
get_address(interface_name, mode) ==
    IF interface_name = NoName THEN [ok |-> TRUE, family |-> mode]
    ELSE IF interface_name \in DOMAIN HostInterfaces
            /\ mode \in HostInterfaces[interface_name]
         THEN [ok |-> TRUE, family |-> mode]
    ELSE [ok |-> FALSE, family |-> "InterfaceDoesNotExist"]

\* The kernel accepts a membership request for a multicast address only:
\* 224.0.0.0/4 and ff00::/8.
IsMulticast(addr) ==
    IF Len(addr) = 4 THEN addr[1] \in 224 .. 239 ELSE addr[1] = U8Max

\* open(): the join_multicast calls of a family in the order they are made.
join_requests(family) ==
    IF family = "Ipv4"
    THEN << [socket |-> "tc", group |-> IPV4_PRIMARY_MULTICAST],
            [socket |-> "ntc", group |-> IPV4_PRIMARY_MULTICAST],
            [socket |-> "tc", group |-> IPV4_PDELAY_MULTICAST],
            [socket |-> "ntc", group |-> IPV4_PDELAY_MULTICAST] >>
    ELSE << [socket |-> "tc", group |-> IPV6_PRIMARY_MULTICAST],
            [socket |-> "ntc", group |-> IPV6_PRIMARY_MULTICAST],
            [socket |-> "tc", group |-> IPV6_PDELAY_MULTICAST],
            [socket |-> "ntc", group |-> IPV6_PDELAY_MULTICAST] >>

\* The calls up to and including the first one the kernel refuses (each call
\* is followed by `?`).
RECURSIVE join_calls_made(_, _)
join_calls_made(requests, k) ==
    IF k > Len(requests) THEN requests
    ELSE IF ~IsMulticast(requests[k].group) THEN SubSeq(requests, 1, k)
    ELSE join_calls_made(requests, k + 1)

\* open(): the send destinations of a family.
send_addresses(family) ==
    IF family = "Ipv4"
    THEN [tc |-> <<IPV4_PRIMARY_MULTICAST, TcPort>>,
          ntc |-> <<IPV4_PRIMARY_MULTICAST, NtcPort>>]
    ELSE [tc |-> <<IPV6_PRIMARY_MULTICAST, TcPort>>,
          ntc |-> <<IPV6_PRIMARY_MULTICAST, NtcPort>>]

NoAddress == <<>>

\* No port opened yet.
NetIdle ==
    [phase |-> "closed", mode |-> "none", interface_name |-> NoName,
     hardware_timestamping |-> FALSE, bound |-> {}, join_calls |-> <<>>,
     tc_address |-> NoAddress, ntc_address |-> NoAddress, error |-> "none",
     pc |-> "idle", tc_queue |-> <<>>, ntc_queue |-> <<>>,
     arrivals |-> [tc |-> <<>>, ntc |-> <<>>], returned |-> <<>>,
     errqueue |-> <<>>, timestamp |-> "none", sent |-> "none", sends |-> 0]

\* open() failing with an error after the sockets were bound and the given
\* join calls were made.
OpenFailed(n, error, calls) ==
    [n EXCEPT !.phase = "failed", !.error = error, !.join_calls = calls]

\* LinuxRuntime::open(interface) of a runtime made with hardware_timestamping.
open(n, interface_name, mode, hardware_timestamping) ==
    LET bound == [n EXCEPT !.mode = mode, !.interface_name = interface_name,
                           !.hardware_timestamping = hardware_timestamping,
                           !.bound = {<<"tc", TcPort>>, <<"ntc", NtcPort>>}]
        address == get_address(interface_name, mode)
        calls == join_calls_made(join_requests(mode), 1)
    IN  IF interface_name = "absent" THEN OpenFailed(bound, "io", <<>>)
        ELSE IF ~address.ok
             THEN OpenFailed(bound, "InterfaceDoesNotExist", <<>>)
        ELSE IF \E k \in 1 .. Len(calls) : ~IsMulticast(calls[k].group)
             THEN OpenFailed(bound, "io", calls)
        ELSE IF hardware_timestamping /\ interface_name = NoName
             THEN OpenFailed(bound, "InterfaceDoesNotExist", calls)
        ELSE [bound EXCEPT !.phase = "open", !.join_calls = calls,
                           !.tc_address = send_addresses(mode).tc,
                           !.ntc_address = send_addresses(mode).ntc]

Open ==
    /\ net.phase = "closed"
    /\ \E interface_name \in InterfaceNames, mode \in LinuxNetworkMode,
          hardware_timestamping \in BOOLEAN :
            net' = open(net, interface_name, mode, hardware_timestamping)
    /\ UNCHANGED <<ds, call, panicked, codec, exporter>>

\* A datagram arrives on one of the sockets of the open port.  Datagrams are
\* numbered in the order of their arrival.
Arrived == Len(net.arrivals.tc) + Len(net.arrivals.ntc)

Arrive ==
    /\ net.phase = "open"
    /\ Arrived < MaxDatagrams
    /\ \/ net' = [net EXCEPT !.tc_queue = Append(@, Arrived + 1),
                             !.arrivals.tc = Append(@, Arrived + 1)]
       \/ net' = [net EXCEPT !.ntc_queue = Append(@, Arrived + 1),
                             !.arrivals.ntc = Append(@, Arrived + 1)]
    /\ UNCHANGED <<ds, call, panicked, codec, exporter>>

\* A select! branch that takes the head of the other socket's queue with it.
dropped_future_consumes(queue) == IF queue = <<>> THEN queue ELSE Tail(queue)

\* tokio::select!: the future of the branch that did not complete is
\* dropped; it has read nothing from its socket.
dropped_future(queue) == queue

\* recv() is called: both futures are made, nothing is read yet.
RecvStart ==
    /\ net.phase = "open"
    /\ net.pc = "idle"
    /\ net' = [net EXCEPT !.pc = "recv"]
    /\ UNCHANGED <<ds, call, panicked, codec, exporter>>

\* The time critical future completes: recvmsg takes the first datagram of
\* the event socket, and recv() returns it.
RecvTimeCritical ==
    /\ net.pc = "recv"
    /\ net.tc_queue # <<>>
    /\ net' = [net EXCEPT
                 !.pc = "idle",
                 !.returned = Append(@, [socket |-> "tc",
                                         id |-> Head(net.tc_queue)]),
                 !.tc_queue = Tail(@),
                 !.ntc_queue = dropped_future(@)]
    /\ UNCHANGED <<ds, call, panicked, codec, exporter>>

\* The non time critical future completes: recv_from takes the first
\* datagram of the general socket, and recv() returns it.
RecvNonTimeCritical ==
    /\ net.pc = "recv"
    /\ net.ntc_queue # <<>>
    /\ net' = [net EXCEPT
                 !.pc = "idle",
                 !.returned = Append(@, [socket |-> "ntc",
                                         id |-> Head(net.ntc_queue)]),
                 !.ntc_queue = Tail(@),
                 !.tc_queue = dropped_future(@)]
    /\ UNCHANGED <<ds, call, panicked, codec, exporter>>

\* send_time_critical() is called.  send_to fails and the call returns the
\* error, or the datagram leaves and the call enters its loop; the kernel
\* will put the transmit timestamp on the error queue ("in_flight") or
\* never does ("lost").
SendTimeCritical ==
    /\ net.phase = "open"
    /\ net.pc = "idle"
    /\ net.sends < MaxSends
    /\ \/ net' = [net EXCEPT !.sends = @ + 1, !.sent = "failed"]
       \/ \E fate \in {"in_flight", "lost"} :
            net' = [net EXCEPT !.sends = @ + 1, !.sent = "waiting",
                               !.pc = "send_tc", !.timestamp = fate]
    /\ UNCHANGED <<ds, call, panicked, codec, exporter>>

\* The kernel puts the transmit timestamp on the error queue.
KernelQueuesTxTimestamp ==
    /\ net.timestamp = "in_flight"
    /\ net' = [net EXCEPT !.timestamp = "queued",
                          !.errqueue = Append(@, "timestamp")]
    /\ UNCHANGED <<ds, call, panicked, codec, exporter>>

\* The kernel puts a message without a transmit timestamp on the error
\* queue.
KernelQueuesOther ==
    /\ net.phase = "open"
    /\ Len(SelectSeq(net.errqueue, LAMBDA m : m = "other")) < MaxErrQueue
    /\ net.timestamp \in {"in_flight", "lost"}
    /\ net' = [net EXCEPT !.errqueue = Append(@, "other")]
    /\ UNCHANGED <<ds, call, panicked, codec, exporter>>

\* One round of the loop of send_time_critical, when the socket is readable:
\* try_recv_tx_timestamp returns None on an empty error queue and on a
\* message without a timestamp, and the loop goes on; on a timestamp the call
\* returns it.
TryRecvTxTimestamp ==
    /\ net.pc = "send_tc"
    /\ net.errqueue # <<>> \/ net.tc_queue # <<>>
    /\ net' = IF net.errqueue = <<>> THEN net
              ELSE IF Head(net.errqueue) = "timestamp"
                   THEN [net EXCEPT !.errqueue = Tail(@), !.pc = "idle",
                                    !.sent = "returned"]
              ELSE [net EXCEPT !.errqueue = Tail(@)]
    /\ UNCHANGED <<ds, call, panicked, codec, exporter>>


\* -------------------------------------------------------- metrics exporter

\* The exporter accepts at most MaxConnections connections.
MaxConnections == 3

\* A label value of the observable state has at most MaxLabelLen characters.
MaxLabelLen == 1

\* The characters of a label value, as code points: a letter, the three
\* characters format_metric escapes (quote, backslash, newline) and a
\* character of two UTF-8 bytes.
LabelChars == {65, 34, 92, 10, 233}

RECURSIVE StringsUpTo(_)
StringsUpTo(n) ==
    IF n = 0 THEN {<<>>}
    ELSE StringsUpTo(n - 1)
         \cup {Append(s, c) : s \in StringsUpTo(n - 1), c \in LabelChars}

\* struct ObservableState, as far as the response shows it: a label value of
\* the program data and a measured value.
StateSamples ==
    [version : StringsUpTo(MaxLabelLen), clock_class : {0, 7, 248}]

\* The decimal digits of a number (Display for an unsigned integer).
RECURSIVE Digits(_)
Digits(n) ==
    IF n < 10 THEN <<48 + n>> ELSE Append(Digits(n \div 10), 48 + (n % 10))

\* format_metric: a label value with backslash, quote and newline escaped.
RECURSIVE escape(_)
escape(value) ==
    IF value = <<>> THEN <<>>
    ELSE (CASE Head(value) = 92 -> <<92, 92>>
            [] Head(value) = 34 -> <<92, 34>>
            [] Head(value) = 10 -> <<92, 110>>
            [] OTHER -> <<Head(value)>>)
         \o escape(Tail(value))

\* format_state: the text of the metrics of a state: the label in braces and
\* quotes, a space, the value, a newline, and the line "# EOF".
format_state(state) ==
    <<123, 34>> \o escape(state.version) \o <<34, 125, 32>>
        \o Digits(state.clock_class) \o <<10>> \o <<35, 32, 69, 79, 70, 10>>

\* The bytes of a String: a code point below 128 is one byte, the others
\* here are two.
RECURSIVE as_bytes(_)
as_bytes(text) ==
    IF text = <<>> THEN <<>>
    ELSE (IF Head(text) < 128 THEN <<Head(text)>>
          ELSE <<192 + (Head(text) \div 64), 128 + (Head(text) % 64)>>)
         \o as_bytes(Tail(text))

\* String::len(): the length in bytes.
len(text) == Len(as_bytes(text))

\* A String that holds responses is the sequence of the responses written to
\* it; each one is its status line, its content-length header and its body.
ERROR_REPONSE ==
    [status |-> "500 Internal Server Error", content_length |-> 0,
     body |-> <<>>]

\* buf.clear()
clear(buf) == <<>>

\* format_response(buf, state): the content is formatted first, then the
\* headers and the content are appended to buf.
format_response(buf, state) ==
    Append(buf, [status |-> "200 OK",
                 content_length |-> len(format_state(state)),
                 body |-> as_bytes(format_state(state))])

\* handler(buf, observation_socket_path): connecting to the observation
\* socket or reading the state from it fails and buf is left alone, or the
\* state read is formatted into buf.
handler(buf, read) ==
    IF read.ok THEN [ok |-> TRUE, buf |-> format_response(buf, read.state)]
    ELSE [ok |-> FALSE, buf |-> buf]

\* What the observation socket gives a handler: an error from connect or
\* read_json, or a state.
NoState == [version |-> <<>>, clock_class |-> 0]

Reads ==
    {[ok |-> FALSE, state |-> NoState]}
        \cup {[ok |-> TRUE, state |-> s] : s \in StateSamples}

\* The exporter before its first connection: the loop runs, buf is empty.
\* For the last connection served: how its handler ended, the state it read,
\* what was delivered to the connection, and whether the loop went on.
NoConnection ==
    [handler |-> "none", state |-> NoState, sent |-> <<>>, continued |-> TRUE]

ExporterIdle ==
    [running |-> TRUE, accepted |-> 0, buf |-> <<>>, last |-> NoConnection]

\* One round of the loop of main: a connection is accepted, buf is cleared,
\* the handler runs, and its response or the error response is written to
\* the connection.  write_all fails when the peer has reset the connection:
\* nothing is delivered and `?` returns the error from main.
Serve ==
    /\ exporter.running
    /\ exporter.accepted < MaxConnections
    /\ \E read \in Reads, write_ok \in BOOLEAN :
        LET h == handler(clear(exporter.buf), read)
            response == IF h.ok THEN h.buf ELSE <<ERROR_REPONSE>>
        IN  exporter' =
                [running |-> write_ok,
                 accepted |-> exporter.accepted + 1,
                 buf |-> h.buf,
                 last |-> [handler |-> IF h.ok THEN "ok" ELSE "err",
                           state |-> read.state,
                           sent |-> IF write_ok THEN response ELSE <<>>,
                           continued |-> write_ok]]
    /\ UNCHANGED <<ds, call, panicked, codec, net>>

\* listener.accept() fails: `?` returns the error from main.
AcceptFails ==
    /\ exporter.running
    /\ exporter' = [exporter EXCEPT !.running = FALSE]
    /\ UNCHANGED <<ds, call, panicked, codec, net>>

\* --------------------------------------------------------- specifications

Init ==
    /\ \E lai \in LogIntervals, art \in Timeouts,
          dm \in ImplementedDelayMechanism :
            ds = PortDS_new(LocalIdentity, 0, lai, art, 0, dm, 0, 2, 1)
    /\ call = NoCall(ds)
    /\ panicked = FALSE
    /\ codec = CodecIdle
    /\ net = NetIdle
    /\ exporter = ExporterIdle

Next ==
    \/ Disable
    \/ Enable
    \/ \E state \in PortStates : SetForcedPortState(state)
    \/ \E recommended_state \in RecommendedStates :
            SetRecommendedPortState(recommended_state)
    \/ AnnounceInterval
    \/ AnnounceReceiptInterval
    \/ AnnounceReceiptIntervalWraps
    \/ AnnounceReceiptIntervalOverflows
    \/ MasterSendAnnounce
    \/ SlaveSendDelayReq

Spec == Init /\ [][Next]_vars

\* The port driven by enable(), disable() and set_recommended_port_state()
\* alone (and by its own sending, which advances the payload counters):
\* nobody forces a state from outside.
PortNext ==
    \/ Disable
    \/ Enable
    \/ \E recommended_state \in RecommendedStates :
            SetRecommendedPortState(recommended_state)
    \/ MasterSendAnnounce
    \/ SlaveSendDelayReq

PortSpec == Init /\ [][PortNext]_vars

\* The header codec run on the sample headers and buffers; the port is left
\* as constructed.
CodecInit ==
    /\ ds = PortDS_new(LocalIdentity, 0, 0, MaxTimeout, 0, "E2E", 0, 2, 1)
    /\ call = NoCall(ds)
    /\ panicked = FALSE
    /\ codec = CodecIdle
    /\ net = NetIdle
    /\ exporter = ExporterIdle

CodecNext ==
    \/ Serialize
    \/ Deserialize
    \/ DeserializeSerialized
    \/ SerializeDeserialized

CodecSpec == CodecInit /\ [][CodecNext]_vars

\* The network port: one open(), then datagrams arriving and recv() and
\* send_time_critical() called one at a time (both take &mut self).
NetNext ==
    \/ Open
    \/ Arrive
    \/ RecvStart
    \/ RecvTimeCritical
    \/ RecvNonTimeCritical
    \/ SendTimeCritical
    \/ KernelQueuesTxTimestamp
    \/ KernelQueuesOther
    \/ TryRecvTxTimestamp

NetSpec == CodecInit /\ [][NetNext]_vars

\* A future that can make a step is polled, and a transmit timestamp the
\* kernel has in flight reaches the error queue.
NetFairSpec ==
    /\ NetSpec
    /\ WF_vars(RecvTimeCritical \/ RecvNonTimeCritical)
    /\ WF_vars(TryRecvTxTimestamp)
    /\ WF_vars(KernelQueuesTxTimestamp)

\* The metrics exporter serving its connections.
ExporterNext ==
    \/ Serve
    \/ AcceptFails

ExporterSpec == CodecInit /\ [][ExporterNext]_vars

\* ------------------------------------------------------------- properties

Recommended == call.op = "set_recommended_port_state"

RecommendedKind(kinds) == Recommended /\ call.kind \in kinds

PreTag == call.pre.port_state.tag

MKinds == {"M1", "M2", "M3"}

PKinds == {"P1", "P2"}

FreshSlave(state, remote_master) ==
    /\ state.tag = "Slave"
    /\ state.remote_master = remote_master
    /\ state.seq = 0

FreshMaster(state) == state.tag = "Master" /\ state.seq = 0

\* C1: S1(announce) on a port in Listening, Uncalibrated, PreMaster, Master or
\* Passive leaves it in a fresh Slave state whose remote master is the
\* announce's source port identity, with exactly one reset of the announce
\* receipt timer.
C1_S1MakesSlave ==
    (/\ RecommendedKind({"S1"})
     /\ PreTag \in {"Listening", "Uncalibrated", "PreMaster", "Master",
                    "Passive"})
        => /\ FreshSlave(ds.port_state, call.source_port_identity)
           /\ call.resets = 1
           /\ ~panicked

C1_Witness ==
    /\ RecommendedKind({"S1"})
    /\ PreTag = "Master"
    /\ call.pre.port_state.seq > 0
    /\ FreshSlave(ds.port_state, call.source_port_identity)
    /\ call.resets = 1

\* C2: S1 from X' on a port in Slave(X): if X' differs from X the state becomes
\* a fresh Slave(X') and the timer is reset once; if X' equals X the port
\* state, payload included, is unchanged and the timer is not reset.
C2_S1OnSlave ==
    (RecommendedKind({"S1"}) /\ PreTag = "Slave")
        => /\ ~panicked
           /\ IF call.source_port_identity # call.pre.port_state.remote_master
              THEN /\ FreshSlave(ds.port_state, call.source_port_identity)
                   /\ call.resets = 1
              ELSE /\ ds.port_state = call.pre.port_state
                   /\ call.resets = 0

C2_Witness ==
    /\ RecommendedKind({"S1"})
    /\ PreTag = "Slave"
    /\ call.source_port_identity = call.pre.port_state.remote_master
    /\ call.pre.port_state.seq > 0
    /\ ds.port_state = call.pre.port_state
    /\ call.resets = 0

\* C3: M1, M2 or M3 on a port in Listening, Uncalibrated, Slave or Passive
\* leaves it in a fresh Master state; on a port in Master it leaves the state,
\* payload included, unchanged; it never resets the announce receipt timer.
C3_MMakesMaster ==
    RecommendedKind(MKinds)
        => /\ call.resets = 0
           /\ PreTag \in {"Listening", "Uncalibrated", "Slave", "Passive"}
                => FreshMaster(ds.port_state) /\ ~panicked
           /\ PreTag = "Master"
                => ds.port_state = call.pre.port_state /\ ~panicked

C3_Witness ==
    /\ RecommendedKind(MKinds)
    /\ PreTag = "Master"
    /\ call.pre.port_state.seq > 0
    /\ ds.port_state = call.pre.port_state

\* C4 as stated: M1, M2 or M3 on a port in PreMaster moves it to Master.
C4_PreMasterBecomesMaster ==
    (RecommendedKind(MKinds) /\ PreTag = "PreMaster")
        => ds.port_state.tag = "Master"

\* C4 as amended: M1, M2 or M3 on a port in PreMaster leaves the port in
\* PreMaster, the PortDS unchanged and the timer not reset.
C4_PreMasterStays ==
    (RecommendedKind(MKinds) /\ PreTag = "PreMaster")
        => /\ ds = call.pre
           /\ ds.port_state.tag = "PreMaster"
           /\ call.resets = 0
           /\ ~panicked

C4_Witness ==
    /\ RecommendedKind(MKinds)
    /\ PreTag = "PreMaster"
    /\ ds.port_state.tag = "PreMaster"

\* C5: P1 or P2 on a port in Listening, Uncalibrated, Slave, PreMaster or
\* Master leaves it in Passive; on a port in Passive it leaves the state
\* unchanged; it never resets the announce receipt timer.
C5_PMakesPassive ==
    RecommendedKind(PKinds)
        => /\ call.resets = 0
           /\ PreTag \in {"Listening", "Uncalibrated", "Slave", "PreMaster",
                          "Master"}
                => ds.port_state = Plain("Passive") /\ ~panicked
           /\ PreTag = "Passive"
                => ds.port_state = call.pre.port_state /\ ~panicked

C5_Witness ==
    /\ RecommendedKind(PKinds)
    /\ PreTag = "Master"
    /\ ds.port_state.tag = "Passive"

\* C6: any recommendation on a port in Disabled changes nothing: the port
\* stays Disabled and the announce receipt timer is not reset.
C6_DisabledIgnoresRecommendation ==
    (Recommended /\ PreTag = "Disabled")
        => /\ ds = call.pre
           /\ ds.port_state.tag = "Disabled"
           /\ call.resets = 0
           /\ ~panicked

C6_Witness ==
    /\ RecommendedKind({"S1"})
    /\ PreTag = "Disabled"
    /\ ds.port_state.tag = "Disabled"
    /\ call.resets = 0

\* C7 as stated: any recommendation on a port in Initializing or Faulty leaves
\* port_state unchanged and returns to the caller without panicking.
C7_InitializingFaultyReturns ==
    (Recommended /\ PreTag \in {"Initializing", "Faulty"})
        => /\ ds.port_state = call.pre.port_state
           /\ ~panicked

\* C8: disable() in any port state leaves the port Disabled with port_enable
\* false.
C8_DisableDisables ==
    call.op = "disable"
        => /\ ds.port_state = Plain("Disabled")
           /\ ds.port_enable = FALSE

C8_Witness ==
    /\ call.op = "disable"
    /\ PreTag = "Slave"
    /\ call.pre.port_enable
    /\ ds.port_state.tag = "Disabled"
    /\ ~ds.port_enable

\* C9: enable() sets port_enable and moves a Disabled port to Listening; in
\* any other state it leaves port_state, payload included, unchanged.
C9_EnableListensFromDisabled ==
    call.op = "enable"
        => /\ ds.port_enable = TRUE
           /\ IF PreTag = "Disabled"
              THEN ds.port_state = Plain("Listening")
              ELSE ds.port_state = call.pre.port_state

C9_Witness ==
    /\ call.op = "enable"
    /\ PreTag = "Master"
    /\ call.pre.port_state.seq > 0
    /\ ~call.pre.port_enable
    /\ ds.port_state = call.pre.port_state
    /\ ds.port_enable

\* C10 as stated: announce_receipt_interval() is announceReceiptTimeout times
\* 2^logAnnounceInterval seconds, and announce_interval() is
\* 2^logAnnounceInterval seconds.
C10_ReceiptIntervalIsTimeoutTimesInterval ==
    /\ call.op = "announce_interval"
        => call.ret = NormalizeDuration(1, ds.log_announce_interval)
    /\ call.op = "announce_receipt_interval"
        => /\ ~panicked
           /\ call.ret = NormalizeDuration(ds.announce_receipt_timeout,
                                           ds.log_announce_interval)

\* The three fields that share octets 0 and 1 hold a four-bit value.
NibbleFits(h) ==
    /\ h.major_sdo_id <= 15
    /\ h.minor_version_ptp <= 15
    /\ h.version_ptp <= 15

\* C11 as stated: for every Header value, deserialize of the bytes written by
\* serialize returns (H, 34), and serialize returns 34.
C11_RoundTripEveryHeader ==
    codec.op = "deserialize_serialized"
        => /\ codec.first.n = HeaderSize
           /\ codec.result.kind = "Ok"
           /\ codec.result.header = codec.header
           /\ codec.result.n = HeaderSize

\* C11, amended: the round trip returns (H, 34) for every Header whose
\* major_sdo_id, minor_version_ptp and version_ptp are at most 0x0F; serialize
\* returns 34 for every Header.
C11_RoundTripNibbleHeader ==
    codec.op = "deserialize_serialized"
        => /\ codec.first.n = HeaderSize
           /\ NibbleFits(codec.header)
                => /\ codec.result.kind = "Ok"
                   /\ codec.result.header = codec.header
                   /\ codec.result.n = HeaderSize

C11_Witness ==
    /\ codec.op = "deserialize_serialized"
    /\ codec.header.major_sdo_id = 15
    /\ codec.header.message_type = "Announce"
    /\ codec.result.kind = "Ok"
    /\ codec.result.header = codec.header

\* C12: deserialize of a 34-byte buffer whose octet 0 has a reserved message
\* type in its low nibble fails with InvalidEnumValue and returns no Header;
\* with one of the ten defined message types it does not fail.
C12_ReservedTypeRejected ==
    (codec.op = "deserialize" /\ Len(codec.buffer_in) = HeaderSize)
        => /\ (At(codec.buffer_in, 0) % 16) \in ReservedTypeCodes
                => /\ codec.result.kind = "Err"
                   /\ codec.result.error = "InvalidEnumValue"
                   /\ codec.result.header = NoHeader
           /\ (At(codec.buffer_in, 0) % 16) \in DefinedTypeCodes
                => /\ codec.result.kind = "Ok"
                   /\ MessageTypeCode[codec.result.header.message_type]
                        = At(codec.buffer_in, 0) % 16

C12_Witness ==
    /\ codec.op = "deserialize"
    /\ Len(codec.buffer_in) = HeaderSize
    /\ At(codec.buffer_in, 0) = 94
    /\ codec.result.kind = "Err"
    /\ codec.result.error = "InvalidEnumValue"

\* C13 as stated: serialize and deserialize on a buffer shorter than 34
\* octets return BufferTooShort and do not panic.
C13_ShortBufferIsAnError ==
    (codec.op \in {"serialize", "deserialize"}
            /\ Len(codec.buffer_in) < HeaderSize)
        => /\ codec.result.kind = "Err"
           /\ codec.result.error = "BufferTooShort"

\* The octets of a buffer outside octets 0 and 1 are the fields of h.
LayoutFrom2(b, h) ==
    /\ At(b, 2) * 256 + At(b, 3) = h.message_length
    /\ At(b, 4) = h.domain_number
    /\ At(b, 5) = h.minor_sdo_id
    /\ \A f \in Flags :
            (f \in h.flag_field)
                <=> Bit(At(b, 6 + FlagBit[f][1]), FlagBit[f][2]) = 1
    /\ \A w \in 1 .. 4 :
            At(b, 6 + 2 * w) * 256 + At(b, 7 + 2 * w) = h.correction_field[w]
    /\ \A i \in 1 .. 4 : At(b, 15 + i) = h.message_type_specific[i]
    /\ \A i \in 1 .. 8 :
            At(b, 19 + i) = h.source_port_identity.clock_identity[i]
    /\ At(b, 28) * 256 + At(b, 29) = h.source_port_identity.port_number
    /\ At(b, 30) * 256 + At(b, 31) = h.sequence_id
    /\ ControlField_from_primitive(At(b, 32)) = h.control_field
    /\ At(b, 33) = h.log_message_interval

\* Octets 0 and 1 as the layout table gives them, and with each part cut to
\* its four bits.
LayoutTable01(b, h) ==
    /\ At(b, 0) = BitOr(Shl(h.major_sdo_id, 4), MessageTypeCode[h.message_type])
    /\ At(b, 1) = BitOr(Shl(h.minor_version_ptp, 4), h.version_ptp)

LayoutMasked01(b, h) ==
    /\ At(b, 0) = (h.major_sdo_id % 16) * 16 + MessageTypeCode[h.message_type]
    /\ At(b, 1) = (h.minor_version_ptp % 16) * 16 + (h.version_ptp % 16)

\* A buffer whose reserved flag bits are 0 and whose control field octet is
\* the octet of a ControlField.
Canonical(b) ==
    /\ BitAnd(At(b, 6), 152) = 0
    /\ BitAnd(At(b, 7), 128) = 0
    /\ At(b, 32) <= 5

\* C14 as stated: serialize writes the layout of the table, deserialize reads
\* each field from the same offset, and serialize after deserialize
\* reproduces the 34 octets of every buffer.
C14_LayoutAndReproduction ==
    /\ (codec.op = "serialize" /\ codec.result.kind = "Ok")
        => /\ LayoutTable01(codec.result.buffer, codec.header)
           /\ LayoutFrom2(codec.result.buffer, codec.header)
    /\ (codec.op = "deserialize" /\ codec.result.kind = "Ok")
        => /\ LayoutTable01(codec.buffer_in, codec.result.header)
           /\ LayoutFrom2(codec.buffer_in, codec.result.header)
    /\ codec.op = "serialize_deserialized"
        => /\ codec.result.kind = "Ok"
           /\ Slice(codec.result.buffer, 0, HeaderSize)
                = Slice(codec.buffer_in, 0, HeaderSize)

\* C14, amended: serialize writes the layout of the table with
\* major_sdo_id, minor_version_ptp and version_ptp cut to their low four
\* bits, deserialize reads each field from the same offset, and serialize
\* after deserialize reproduces the 34 octets of every buffer whose reserved
\* flag bits are 0 and whose control field octet is 0..5.
C14_MaskedLayoutAndReproduction ==
    /\ (codec.op = "serialize" /\ codec.result.kind = "Ok")
        => /\ LayoutMasked01(codec.result.buffer, codec.header)
           /\ LayoutFrom2(codec.result.buffer, codec.header)
           /\ codec.result.n = HeaderSize
    /\ (codec.op = "deserialize" /\ codec.result.kind = "Ok")
        => /\ LayoutMasked01(codec.buffer_in, codec.result.header)
           /\ LayoutFrom2(codec.buffer_in, codec.result.header)
    /\ (codec.op = "serialize_deserialized" /\ Canonical(codec.buffer_in))
        => /\ codec.result.kind = "Ok"
           /\ Slice(codec.result.buffer, 0, HeaderSize)
                = Slice(codec.buffer_in, 0, HeaderSize)

C14_Witness ==
    /\ codec.op = "serialize_deserialized"
    /\ codec.buffer_in = TestBytes
    /\ codec.first.header = TestHeader
    /\ codec.result.kind = "Ok"
    /\ codec.result.buffer = TestBytes

\* C15 as stated: send_time_critical always finishes: a call that has sent
\* its datagram and waits for the transmit timestamp returns, with the
\* timestamp or, when none is delivered, with an error.
C15_SendTimeCriticalFinishes == (net.pc = "send_tc") ~> (net.pc # "send_tc")

\* The datagrams of a socket that recv() calls have returned, in the order of
\* the calls.
ReturnedOf(socket) ==
    LET mine == SelectSeq(net.returned, LAMBDA r : r.socket = socket)
    IN  [k \in 1 .. Len(mine) |-> mine[k].id]

ClaimedPrimary(mode) ==
    IF mode = "Ipv4" THEN <<224, 0, 1, 129>>
    ELSE <<255, 14, 0, 0, 0, 0, 0, 0, 0, 0, 0, 0, 0, 0, 1, 129>>

ClaimedPdelay(mode) ==
    IF mode = "Ipv4" THEN <<224, 0, 0, 107>>
    ELSE <<255, 2, 0, 0, 0, 0, 0, 0, 0, 0, 0, 0, 0, 0, 0, 107>>

\* C17 as stated: open() binds the event socket to 319 and the general
\* socket to 320, every group it asks a socket to join is the primary or the
\* pdelay group of the descriptor's family, and a port it returns has both
\* sockets in both groups and sends to the primary group on 319 and 320.
C17_OpenBindsAndJoins ==
    net.phase # "closed"
        => /\ net.bound = {<<"tc", 319>>, <<"ntc", 320>>}
           /\ \A k \in 1 .. Len(net.join_calls) :
                net.join_calls[k].group
                    \in {ClaimedPrimary(net.mode), ClaimedPdelay(net.mode)}
           /\ net.phase = "open"
                => /\ {<<net.join_calls[k].socket, net.join_calls[k].group>> :
                            k \in 1 .. Len(net.join_calls)}
                        = {"tc", "ntc"} \X {ClaimedPrimary(net.mode),
                                            ClaimedPdelay(net.mode)}
                   /\ net.tc_address = <<ClaimedPrimary(net.mode), 319>>
                   /\ net.ntc_address = <<ClaimedPrimary(net.mode), 320>>

\* C18: a port made by PortDS::new and driven by enable(), disable() and
\* set_recommended_port_state() alone is always in Listening, Disabled, Slave,
\* Master or Passive, and no call ends in unimplemented!().
C18_OnlyFiveStates ==
    /\ ds.port_state.tag \in
            {"Listening", "Disabled", "Slave", "Master", "Passive"}
    /\ ~panicked

C18_Witness ==
    /\ RecommendedKind(PKinds)
    /\ PreTag = "Master"
    /\ call.pre.port_state.seq > 0
    /\ ds.port_state.tag = "Passive"
    /\ ~panicked

\* C19: for such a port, port_enable is false exactly when port_state is
\* Disabled, and set_recommended_port_state changes no field of the PortDS
\* other than port_state.
C19_EnableIffNotDisabled ==
    /\ (ds.port_enable = FALSE) <=> (ds.port_state.tag = "Disabled")
    /\ Recommended
            => [ds EXCEPT !.port_state = call.pre.port_state] = call.pre

C19_Witness ==
    /\ RecommendedKind({"S1"})
    /\ PreTag = "Passive"
    /\ ds.port_state.tag = "Slave"
    /\ ds.port_enable
    /\ [ds EXCEPT !.port_state = call.pre.port_state] = call.pre

\* C20 as stated: announce_receipt_interval() computes its exponent without
\* 8-bit overflow or sign wrap: the cast of the timeout to i8 keeps its value
\* and the i8 product fits.
C20_ExponentFitsI8 ==
    call.op = "announce_receipt_interval"
        => /\ AsI8(ds.announce_receipt_timeout) = ds.announce_receipt_timeout
           /\ FitsI8(ReceiptExponent(ds))
           /\ ~panicked

\* C21 as stated: every accepted connection gets exactly one response, built
\* from its own request only: 200 with the content-length of its body when
\* the state was read and formatted, 500 with content-length 0 otherwise;
\* and a failed handler does not stop the loop.
C21_EveryConnectionOneResponse ==
    exporter.accepted > 0
        => /\ Len(exporter.last.sent) = 1
           /\ exporter.last.handler = "ok"
                => /\ exporter.last.sent[1].status = "200 OK"
                   /\ exporter.last.sent[1].content_length
                        = Len(exporter.last.sent[1].body)
                   /\ exporter.last.sent[1].body
                        = as_bytes(format_state(exporter.last.state))
           /\ exporter.last.handler = "err"
                => /\ exporter.last.sent[1].status
                        = "500 Internal Server Error"
                   /\ exporter.last.sent[1].content_length = 0
                   /\ exporter.last.sent[1].body = <<>>
                   /\ exporter.last.continued

====
